---- MODULE Spec2Model ----
(***************************************************************************)
(* lms_notebook.ipynb as a state machine.  The state is the interactive    *)
(* session: the namespace the code cells share, and what the last executed *)
(* cell raised and displayed.  One action per code cell; a cell runs its   *)
(* statements top to bottom and stops at the first one that raises.  The   *)
(* cells may be executed in any order and any number of times.             *)
(*                                                                         *)
(* The sections of the notebook are independent of each other except for   *)
(* the names they share, so the sessions of the whole notebook are the     *)
(* product of the sessions of its sections: millions of states.  The       *)
(* sessions explored are those that stay within one group of cells closed  *)
(* under the names the cells share (Sections), and the top-to-bottom run   *)
(* of the whole notebook.                                                  *)
(***************************************************************************)
EXTENDS Integers, Sequences, FiniteSets

VARIABLES
    section,   \* the group of cells this session stays in (see Sections)
    env,       \* the session namespace: name -> value (Unbound when not bound)
    last,      \* the code cell executed last (0 before any)
    raised,    \* what the last cell raised: [kind, line], kind "none" when it completed
    ran,       \* the lines of the last cell that executed without raising, in order
    out,       \* what the last cell printed, displayed or rendered, in order
    reloaded,  \* handle names the last cell bound again while they held a handle
    loadedAt,  \* history: lines of the loading statements that have ever succeeded
    done,      \* history: the handle-loading cells that have ever completed
    failures,  \* history: how many external calls have raised in this session
    linear     \* history: k when the session so far is cells 1..k run once each, in
               \* order, cells 1..k-1 having completed; -1 for any other session

vars == <<section, env, last, raised, ran, out, reloaded, loadedAt, done, failures, linear>>

----------------------------------------------------------------------------
(* Values.  Every value is a record tagged by t, so any two compare.       *)

Unbound == [t |-> "unbound"]
Str(s) == [t |-> "str", s |-> s]
Lib(n) == [t |-> "lib", name |-> n]
Handle(cls, ckpt, opts) == [t |-> "handle", cls |-> cls, ckpt |-> ckpt, opts |-> opts]
IdList(ids) == [t |-> "ids", ids |-> ids]
Tensor(rows) == [t |-> "tensor", rows |-> rows]
Encoding(rows) == [t |-> "encoding", input_ids |-> Tensor(rows)]
Tokens(toks) == [t |-> "tokens", toks |-> toks]
Attention(by, q, k) == [t |-> "attention", by |-> by, q |-> q, k |-> k]
Opaque(what, by, of) == [t |-> what, by |-> by, of |-> of]

IsHandle(v) == v.t = "handle"

\* max_length passed to both generate calls, and model_max_length of t5_tokenizer
max_length == 512
\* layer and head of the neuron view
layer == 2
head == 0

----------------------------------------------------------------------------
(* The string literals of the notebook.                                    *)

sentence_a_lit == "The rabbit ran up the hill and the fox followed"
sentence_b_lit == "The rabbit ran up the hill and the fox did not follow"
translate_lit == "translate English to German: I flew to Germany."
target_lit == "Ich flog nach Deutschland."
prompt_lit == "summarize:"
prefix_lit == "This is a long story about the rabbit and the fox. The rabbit ran up the hill to escape the fox. One time the fox followed. The other time, it did not."

----------------------------------------------------------------------------
(* The tokenizers, as the notebook's text describes them: a string is cut  *)
(* into vocabulary pieces, each piece is mapped to its index in the        *)
(* vocabulary, BERT frames the pieces with [CLS] and one [SEP] per         *)
(* sentence, T5 closes them with </s>.                                     *)

Pieces(s) ==
    CASE s = "WANDISCO" -> <<"WA", "##ND", "##IS", "##CO">>
      [] s = sentence_a_lit ->
            <<"The", "rabbit", "ran", "up", "the", "hill", "and", "the", "fox", "followed">>
      [] s = sentence_b_lit ->
            <<"The", "rabbit", "ran", "up", "the", "hill", "and", "the", "fox", "did",
              "not", "follow">>
      [] s = translate_lit ->
            <<"translate", "English", "to", "German", ":", "I", "flew", "to", "Germany", ".">>
      [] s = target_lit -> <<"Ich", "flog", "nach", "Deutschland", ".">>
      [] s = prompt_lit \o " " \o prefix_lit ->
            <<"summarize", ":", "This", "is", "a", "long", "story", "about", "the",
              "rabbit", "and", "the", "fox", ".", "The", "rabbit", "ran",
              "up", "the", "hill", "to", "escape", "the", "fox", ".",
              "One", "time", "the", "fox", "followed", ".", "The", "other",
              "time", ",", "it", "did", "not", ".">>
      [] OTHER -> <<"[UNK]">>

Vocab ==
    <<"[PAD]", "[UNK]", "[CLS]", "[SEP]", "[MASK]", "</s>", "WA", "##ND", "##IS",
      "##CO", "The", "rabbit", "ran", "up", "the", "hill", "and", "fox",
      "followed", "did", "not", "follow", "translate", "English", "to",
      "German", ":", "I", "flew", "Germany", ".", "Ich", "flog", "nach",
      "Deutschland", "summarize", "This", "is", "a", "long", "story",
      "about", "escape", "One", "time", "other", ",", "it">>

TokenId(tok) == CHOOSE i \in DOMAIN Vocab : Vocab[i] = tok
PieceIds(s) == LET p == Pieces(s) IN [i \in DOMAIN p |-> TokenId(p[i])]

RECURSIVE Framed(_)
Framed(texts) ==
    IF texts = <<>> THEN <<>>
    ELSE PieceIds(Head(texts)) \o <<TokenId("[SEP]")>> \o Framed(Tail(texts))

\* tokenizer.encode(text) and tokenizer.encode(text_a, text_b)
encode(texts) == <<TokenId("[CLS]")>> \o Framed(texts)
\* t5_tokenizer(text, add_special_tokens=True).input_ids[0]
t5_encode(text) == PieceIds(text) \o <<TokenId("</s>")>>
convert_ids_to_tokens(ids) == [i \in DOMAIN ids |-> Vocab[ids[i]]]

----------------------------------------------------------------------------
(* The external calls.  Each returns a value determined by its arguments;  *)
(* whether it raises instead is the environment's choice (see Failures).   *)

\* AutoTokenizer / AutoModel / BertModel / BertTokenizer / T5... .from_pretrained
from_pretrained(cls, ckpt, opts) == Handle(cls.name, ckpt.s, opts)
\* pipeline('fill-mask', model=...)
pipeline(task, ckpt) == Handle("pipeline:" \o task, ckpt.s, "")
\* unmasker(sentence): the ranked candidates, as the library returns them
unmasker(h, sentence) == Opaque("preds", h.ckpt, sentence)
\* model(inputs) with output_attentions=True: the attentions are the last item
model(h, inputs) ==
    [t |-> "outputs",
     items |-> <<Opaque("last_hidden_state", h.ckpt, inputs),
                 Opaque("pooler_output", h.ckpt, inputs),
                 Attention(h.ckpt, inputs.rows[1], inputs.rows[1])>>]
\* t5_model(input_ids=..., decoder_input_ids=...)
t5_forward(h, enc, dec) ==
    [t |-> "seq2seq_outputs",
     logits |-> Opaque("logits", h.ckpt, dec),
     decoder_attentions |-> Attention(h.ckpt, dec.rows[1], dec.rows[1]),
     cross_attentions |-> Attention(h.ckpt, dec.rows[1], enc.rows[1]),
     encoder_attentions |-> Attention(h.ckpt, enc.rows[1], enc.rows[1])]
\* outputs[-1]
LastItem(o) == IF o.t = "outputs" THEN o.items[Len(o.items)] ELSE o.encoder_attentions
\* t5_model.generate(**input, max_length=512)
generate(h, input, maxlen) == [t |-> "generated", by |-> h.ckpt, of |-> input, max_length |-> maxlen]
\* t5_tokenizer.batch_decode(output_ids)
batch_decode(h, ids) == Opaque("decoded", h.ckpt, ids)

----------------------------------------------------------------------------
(* Statements.  A statement is [line, binds, reads, raises]: its line in   *)
(* lms_notebook.ipynb, the names it assigns, the names it reads, and the   *)
(* errors its external call can raise.  What it computes is given per cell *)
(* by an operator XDo(line, e) = [vals, out]: the values assigned to binds *)
(* and what it displays, in the namespace e.                               *)

S(line, binds, reads, raises) ==
    [line |-> line, binds |-> binds, reads |-> reads, raises |-> raises]

Ret(vals) == [vals |-> vals, out |-> <<>>]
Show(o) == [vals |-> <<>>, out |-> <<o>>]
Printed(label, v) == Show([t |-> "print", label |-> label, v |-> v])
Display(v) == Show([t |-> "display", v |-> v])

None == [kind |-> "none", line |-> 0]
Raise(kind, line) == [kind |-> kind, line |-> line]

\* the errors of the external calls: fetching a checkpoint, fetching and
\* loading a model, running a model, a tokenizer call, a rendering call
FetchErrors == {"OSError"}
LoadErrors == {"OSError", "MemoryError"}
InferenceErrors == {"RuntimeError"}
TokenizerErrors == {"ValueError"}
RenderErrors == {"ValueError"}

\* the environment's choice for one execution of a cell: no external call
\* fails, or the call at one line raises one of its errors
\* the sessions explored have at most MaxFailures external calls that raise
MaxFailures == 1

Failures(prog) ==
    {None} \cup
    UNION {{Raise(k, prog[i].line) : k \in prog[i].raises} : i \in DOMAIN prog}

----------------------------------------------------------------------------
(* The eleven code cells, in notebook order.                               *)

Names ==
    {"AutoModel", "AutoTokenizer", "pipeline", "utils", "T5ForConditionalGeneration",
     "model_view", "head_view", "show", "BertModel", "BertTokenizer",
     "model_type", "model_version",
     "tokenizer", "test_string", "token_ids", "tokens",
     "unmasker", "male_preds", "female_preds",
     "sentence_a", "bert_model", "bert_tokenizer",
     "model", "inputs", "outputs", "attention", "sentence_b",
     "t5_model", "t5_tokenizer", "input", "output_ids", "output_tokens",
     "prompt", "prefix",
     "encoder_input_ids", "decoder_input_ids", "encoder_text", "decoder_text"}

\* the names that hold a model, tokenizer or pipeline handle
HandleNames ==
    {"tokenizer", "unmasker", "bert_model", "bert_tokenizer", "model", "t5_model",
     "t5_tokenizer"}

\* cell 1: !wget requirements.txt, %pip install.  Shell escapes and magics
\* report a failure on the output and do not raise.
InstallProg == <<S(22, <<>>, {}, {}), S(23, <<>>, {}, {})>>
InstallDo(line, e) ==
    CASE line = 22 -> Show([t |-> "shell", cmd |-> "wget"])
      [] line = 23 -> Show([t |-> "shell", cmd |-> "pip install"])

\* cell 2: imports, model_type, model_version
ImportProg ==
    <<S(33, <<"AutoModel", "AutoTokenizer", "pipeline", "utils",
              "T5ForConditionalGeneration">>, {}, {"ImportError"}),
      S(34, <<"model_view", "head_view">>, {}, {"ImportError"}),
      S(35, <<"show">>, {}, {"ImportError"}),
      S(36, <<"BertModel", "BertTokenizer">>, {}, {"ImportError"}),
      S(38, <<>>, {"utils"}, {}),
      S(40, <<"model_type">>, {}, {}),
      S(41, <<"model_version">>, {}, {})>>
ImportDo(line, e) ==
    CASE line = 33 -> Ret(<<Lib("AutoModel"), Lib("AutoTokenizer"), Lib("pipeline"),
                            Lib("utils"), Lib("T5ForConditionalGeneration")>>)
      [] line = 34 -> Ret(<<Lib("model_view"), Lib("head_view")>>)
      [] line = 35 -> Ret(<<Lib("show")>>)
      [] line = 36 -> Ret(<<Lib("BertModel"), Lib("BertTokenizer")>>)
      [] line = 38 -> Ret(<<>>)
      [] line = 40 -> Ret(<<Str("bert")>>)
      [] line = 41 -> Ret(<<Str("bert-base-cased")>>)

\* cell 3: tokenising
TokenizingProg ==
    <<S(68, <<"tokenizer">>, {"AutoTokenizer", "model_version"}, FetchErrors),
      S(71, <<"test_string">>, {}, {}),
      S(73, <<"token_ids">>, {"tokenizer", "test_string"}, TokenizerErrors),
      S(74, <<>>, {"token_ids"}, {}),
      S(76, <<"tokens">>, {"tokenizer", "token_ids"}, TokenizerErrors),
      S(77, <<>>, {"tokens"}, {})>>
TokenizingDo(line, e) ==
    CASE line = 68 -> Ret(<<from_pretrained(e["AutoTokenizer"], e["model_version"], "")>>)
      [] line = 71 -> Ret(<<Str("WANDISCO")>>)
      [] line = 73 -> Ret(<<IdList(encode(<<e["test_string"].s>>))>>)
      [] line = 74 -> Printed("IDS", e["token_ids"])
      [] line = 76 -> Ret(<<Tokens(convert_ids_to_tokens(e["token_ids"].ids))>>)
      [] line = 77 -> Printed("Tokens", e["tokens"])

\* cell 4: the fill-mask pipeline
FillMaskProg ==
    <<S(96, <<"unmasker">>, {"pipeline", "model_version"}, LoadErrors),
      S(98, <<"test_string">>, {}, {}),
      S(99, <<>>, {"unmasker", "test_string"}, {"PipelineException"})>>
FillMaskDo(line, e) ==
    CASE line = 96 -> Ret(<<pipeline("fill-mask", e["model_version"])>>)
      [] line = 98 -> Ret(<<Str("WANDISCO is a [MASK] company")>>)
      [] line = 99 -> Display(unmasker(e["unmasker"], e["test_string"].s))

\* cell 5: bias
BiasProg ==
    <<S(118, <<"male_preds">>, {"unmasker"}, {"PipelineException"}),
      S(119, <<"female_preds">>, {"unmasker"}, {"PipelineException"}),
      S(121, <<>>, {"male_preds"}, {}),
      S(122, <<>>, {"female_preds"}, {})>>
BiasDo(line, e) ==
    CASE line = 118 -> Ret(<<unmasker(e["unmasker"], "The man worked as a [MASK].")>>)
      [] line = 119 -> Ret(<<unmasker(e["unmasker"], "The woman worked as a [MASK].")>>)
      [] line = 121 -> Printed("Male predictions", [e["male_preds"] EXCEPT !.t = "token_strs"])
      [] line = 122 -> Printed("Female predictions", [e["female_preds"] EXCEPT !.t = "token_strs"])

\* mutant: sentence_a is not assigned before the cells that read it
NeuronViewProg_NoSentence ==
    <<S(151, <<"bert_model">>, {"BertModel", "model_version"}, LoadErrors),
      S(152, <<"bert_tokenizer">>, {"BertTokenizer", "model_version"}, FetchErrors),
      S(153, <<>>, {"show", "bert_model", "model_type", "bert_tokenizer"}, InferenceErrors)>>

\* cell 6: the neuron view
NeuronViewProg ==
    <<S(149, <<"sentence_a">>, {}, {}),
      S(151, <<"bert_model">>, {"BertModel", "model_version"}, LoadErrors),
      S(152, <<"bert_tokenizer">>, {"BertTokenizer", "model_version"}, FetchErrors),
      S(153, <<>>, {"show", "bert_model", "model_type", "bert_tokenizer", "sentence_a"},
        InferenceErrors)>>
NeuronViewDo(line, e) ==
    CASE line = 149 -> Ret(<<Str(sentence_a_lit)>>)
      [] line = 151 ->
            Ret(<<from_pretrained(e["BertModel"], e["model_version"], "output_attentions=True")>>)
      [] line = 152 ->
            Ret(<<from_pretrained(e["BertTokenizer"], e["model_version"], "do_lower_case=False")>>)
      [] line = 153 ->
            Show([t |-> "neuron_view", model |-> e["bert_model"],
                  model_type |-> e["model_type"], tokenizer |-> e["bert_tokenizer"],
                  sentence_a |-> e["sentence_a"], layer |-> layer, head |-> head])

\* cell 7: the model view of one sentence
\* mutant: the second load names another checkpoint than the first
ReloadTokenizer_OtherCheckpoint(e) ==
    from_pretrained(e["AutoTokenizer"], Str("bert-base-uncased"), "")

\* line 171: tokenizer = AutoTokenizer.from_pretrained(model_version), as in cell 3
ReloadTokenizer(e) == from_pretrained(e["AutoTokenizer"], e["model_version"], "")

ModelViewProg ==
    <<S(170, <<"model">>, {"AutoModel", "model_version"}, LoadErrors),
      S(171, <<"tokenizer">>, {"AutoTokenizer", "model_version"}, FetchErrors),
      S(173, <<"inputs">>, {"tokenizer", "sentence_a"}, TokenizerErrors),
      S(174, <<"outputs">>, {"model", "inputs"}, InferenceErrors),
      S(175, <<"attention">>, {"outputs"}, {}),
      S(176, <<"tokens">>, {"tokenizer", "inputs"}, TokenizerErrors),
      S(178, <<>>, {"model_view", "attention", "tokens"}, RenderErrors)>>
ModelViewDo(line, e) ==
    CASE line = 170 ->
            Ret(<<from_pretrained(e["AutoModel"], e["model_version"], "output_attentions=True")>>)
      [] line = 171 -> Ret(<<ReloadTokenizer(e)>>)
      [] line = 173 -> Ret(<<Tensor(<<encode(<<e["sentence_a"].s>>)>>)>>)
      [] line = 174 -> Ret(<<model(e["model"], e["inputs"])>>)
      [] line = 175 -> Ret(<<LastItem(e["outputs"])>>)
      [] line = 176 -> Ret(<<Tokens(convert_ids_to_tokens(e["inputs"].rows[1]))>>)
      [] line = 178 ->
            Show([t |-> "model_view", attention |-> e["attention"], tokens |-> e["tokens"]])

\* mutant: the model is not run again on the two-sentence inputs
TwoSentenceProg_StaleOutputs ==
    <<S(197, <<"sentence_b">>, {}, {}),
      S(199, <<"inputs">>, {"tokenizer", "sentence_a", "sentence_b"}, TokenizerErrors),
      S(201, <<"attention">>, {"outputs"}, {}),
      S(202, <<"tokens">>, {"tokenizer", "inputs"}, TokenizerErrors),
      S(204, <<>>, {"tokens"}, {}),
      S(205, <<>>, {"model_view", "attention", "tokens"}, RenderErrors)>>

\* cell 8: the model view of two sentences
TwoSentenceProg ==
    <<S(197, <<"sentence_b">>, {}, {}),
      S(199, <<"inputs">>, {"tokenizer", "sentence_a", "sentence_b"}, TokenizerErrors),
      S(200, <<"outputs">>, {"model", "inputs"}, InferenceErrors),
      S(201, <<"attention">>, {"outputs"}, {}),
      S(202, <<"tokens">>, {"tokenizer", "inputs"}, TokenizerErrors),
      S(204, <<>>, {"tokens"}, {}),
      S(205, <<>>, {"model_view", "attention", "tokens"}, RenderErrors)>>
TwoSentenceDo(line, e) ==
    CASE line = 197 -> Ret(<<Str(sentence_b_lit)>>)
      [] line = 199 -> Ret(<<Tensor(<<encode(<<e["sentence_a"].s, e["sentence_b"].s>>)>>)>>)
      [] line = 200 -> Ret(<<model(e["model"], e["inputs"])>>)
      [] line = 201 -> Ret(<<LastItem(e["outputs"])>>)
      [] line = 202 -> Ret(<<Tokens(convert_ids_to_tokens(e["inputs"].rows[1]))>>)
      [] line = 204 -> Printed("", e["tokens"])
      [] line = 205 ->
            Show([t |-> "model_view", attention |-> e["attention"], tokens |-> e["tokens"]])

\* cell 9: T5 translation
T5GenerateProg ==
    <<S(232, <<"t5_model">>, {"T5ForConditionalGeneration"}, LoadErrors),
      S(233, <<"t5_tokenizer">>, {"AutoTokenizer"}, FetchErrors),
      S(235, <<"input">>, {"t5_tokenizer"}, TokenizerErrors),
      S(236, <<"output_ids">>, {"t5_model", "input"}, InferenceErrors),
      S(238, <<"output_tokens">>, {"t5_tokenizer", "output_ids"}, TokenizerErrors),
      S(239, <<>>, {"output_tokens"}, {})>>
T5GenerateDo(line, e) ==
    CASE line = 232 ->
            Ret(<<from_pretrained(e["T5ForConditionalGeneration"], Str("t5-small"),
                                  "output_attentions=True")>>)
      [] line = 233 ->
            Ret(<<from_pretrained(e["AutoTokenizer"], Str("t5-small"), "model_max_length=512")>>)
      [] line = 235 -> Ret(<<Encoding(<<t5_encode(translate_lit)>>)>>)
      [] line = 236 -> Ret(<<generate(e["t5_model"], e["input"], max_length)>>)
      [] line = 238 -> Ret(<<batch_decode(e["t5_tokenizer"], e["output_ids"])>>)
      [] line = 239 -> Display(e["output_tokens"])

\* cell 10: T5 summary
SummarizeProg ==
    <<S(264, <<"prompt">>, {}, {}),
      S(265, <<"prefix">>, {}, {}),
      S(267, <<"input">>, {"t5_tokenizer", "prompt", "prefix"}, TokenizerErrors),
      S(268, <<"output_ids">>, {"t5_model", "input"}, InferenceErrors),
      S(270, <<"output_tokens">>, {"t5_tokenizer", "output_ids"}, TokenizerErrors),
      S(271, <<>>, {"output_tokens"}, {})>>
SummarizeDo(line, e) ==
    CASE line = 264 -> Ret(<<Str(prompt_lit)>>)
      [] line = 265 -> Ret(<<Str(prefix_lit)>>)
      [] line = 267 -> Ret(<<Encoding(<<t5_encode(e["prompt"].s \o " " \o e["prefix"].s)>>)>>)
      [] line = 268 -> Ret(<<generate(e["t5_model"], e["input"], max_length)>>)
      [] line = 270 -> Ret(<<batch_decode(e["t5_tokenizer"], e["output_ids"])>>)
      [] line = 271 -> Display(e["output_tokens"])

\* mutant: the T5 outputs are assigned to the name model
T5AttentionProg_RebindsModel ==
    <<S(288, <<"encoder_input_ids">>, {"t5_tokenizer"}, TokenizerErrors),
      S(289, <<"decoder_input_ids">>, {"t5_tokenizer"}, TokenizerErrors),
      S(291, <<"model">>, {"t5_model", "encoder_input_ids", "decoder_input_ids"},
        InferenceErrors)>>

\* cell 11: the model view of T5
T5AttentionProg ==
    <<S(288, <<"encoder_input_ids">>, {"t5_tokenizer"}, TokenizerErrors),
      S(289, <<"decoder_input_ids">>, {"t5_tokenizer"}, TokenizerErrors),
      S(291, <<"outputs">>, {"t5_model", "encoder_input_ids", "decoder_input_ids"},
        InferenceErrors),
      S(293, <<"encoder_text">>, {"t5_tokenizer", "encoder_input_ids"}, TokenizerErrors),
      S(294, <<"decoder_text">>, {"t5_tokenizer", "decoder_input_ids"}, TokenizerErrors),
      S(296, <<>>, {"model_view", "outputs", "encoder_text", "decoder_text"}, RenderErrors)>>
T5AttentionDo(line, e) ==
    CASE line = 288 -> Ret(<<Tensor(<<t5_encode(translate_lit)>>)>>)
      [] line = 289 -> Ret(<<Tensor(<<t5_encode(target_lit)>>)>>)
      [] line = 291 ->
            Ret(<<t5_forward(e["t5_model"], e["encoder_input_ids"], e["decoder_input_ids"])>>)
      [] line = 293 -> Ret(<<Tokens(convert_ids_to_tokens(e["encoder_input_ids"].rows[1]))>>)
      [] line = 294 -> Ret(<<Tokens(convert_ids_to_tokens(e["decoder_input_ids"].rows[1]))>>)
      [] line = 296 ->
            Show([t |-> "model_view_encdec",
                  encoder_attention |-> e["outputs"].encoder_attentions,
                  decoder_attention |-> e["outputs"].decoder_attentions,
                  cross_attention |-> e["outputs"].cross_attentions,
                  encoder_tokens |-> e["encoder_text"],
                  decoder_tokens |-> e["decoder_text"]])

NCells == 11

ProgOf(c) ==
    CASE c = 1 -> InstallProg
      [] c = 2 -> ImportProg
      [] c = 3 -> TokenizingProg
      [] c = 4 -> FillMaskProg
      [] c = 5 -> BiasProg
      [] c = 6 -> NeuronViewProg
      [] c = 7 -> ModelViewProg
      [] c = 8 -> TwoSentenceProg
      [] c = 9 -> T5GenerateProg
      [] c = 10 -> SummarizeProg
      [] c = 11 -> T5AttentionProg

DoOf(c, line, e) ==
    CASE c = 1 -> InstallDo(line, e)
      [] c = 2 -> ImportDo(line, e)
      [] c = 3 -> TokenizingDo(line, e)
      [] c = 4 -> FillMaskDo(line, e)
      [] c = 5 -> BiasDo(line, e)
      [] c = 6 -> NeuronViewDo(line, e)
      [] c = 7 -> ModelViewDo(line, e)
      [] c = 8 -> TwoSentenceDo(line, e)
      [] c = 9 -> T5GenerateDo(line, e)
      [] c = 10 -> SummarizeDo(line, e)
      [] c = 11 -> T5AttentionDo(line, e)

\* the names statement i of prog assigns, and those the statements before it assign
BindsAt(prog, i) == {prog[i].binds[j] : j \in DOMAIN prog[i].binds}
BindsBefore(prog, i) == UNION {BindsAt(prog, k) : k \in 1..(i - 1)}
\* the handle names a cell loads, and the lines that load a handle name
Loads(c) == HandleNames \cap BindsBefore(ProgOf(c), Len(ProgOf(c)) + 1)
LoaderCells == {c \in 1..NCells : Loads(c) # {}}
Loaders(h) == {c \in LoaderCells : h \in Loads(c)}
LoadLines(h) ==
    UNION {{ProgOf(c)[i].line : i \in {k \in DOMAIN ProgOf(c) : h \in BindsAt(ProgOf(c), k)}} :
           c \in 1..NCells}
\* the handle names a cell reads without having assigned them itself
Uses(c) ==
    HandleNames \cap
    UNION {ProgOf(c)[i].reads \ BindsBefore(ProgOf(c), i) : i \in DOMAIN ProgOf(c)}

\* the same, as tables
LoadersOf == [h \in HandleNames |-> Loaders(h)]
LoadLinesOf == [h \in HandleNames |-> LoadLines(h)]
UsesOf == [c \in 1..NCells |-> Uses(c)]

\* The groups of cells a session stays in.  "bert": the sections Tokenising,
\* Model, Bias and Attention; "t5": the section Different Architectures;
\* "attention": the cells that share inputs, outputs, attention and tokens,
\* with the cells that bind what they read; "linear": the whole notebook,
\* run top to bottom, a cell being run when the one before it has completed.
Sections == {"bert", "t5", "attention", "linear"}
SectionCells(s) ==
    CASE s = "bert" -> 1..8
      [] s = "t5" -> {1, 2, 9, 10, 11}
      [] s = "attention" -> {2, 3, 6, 7, 8, 9, 11}
      [] s = "linear" -> 1..NCells

----------------------------------------------------------------------------
(* Running a cell.  The kernel executes the statements in order; a name    *)
(* that is read while unbound raises NameError, an external call raises    *)
(* when the environment makes it fail; the first error ends the cell, and  *)
(* what the earlier statements assigned stays assigned.                    *)

RECURSIVE AssignFrom(_, _, _, _)
AssignFrom(e, binds, vals, i) ==
    IF i > Len(binds) THEN e
    ELSE AssignFrom([e EXCEPT ![binds[i]] = vals[i]], binds, vals, i + 1)

Assign(e, binds, vals) == AssignFrom(e, binds, vals, 1)

Start(e) ==
    [env |-> e, raised |-> None, ran |-> <<>>, out |-> <<>>, reloaded |-> {}, loaded |-> {}]

\* mutant: the failing statement is caught and its names get a fallback value
OnRaise_Fallback(st, r, err) ==
    [r EXCEPT !.raised = err,
              !.env = Assign(r.env, st.binds, [i \in DOMAIN st.binds |-> Str("")])]

\* an error is caught nowhere: the cell ends with it, nothing else changes
OnRaise(st, r, err) == [r EXCEPT !.raised = err]

Step(c, st, r, f) ==
    IF \E n \in st.reads : r.env[n] = Unbound
    THEN OnRaise(st, r, Raise("NameError", st.line))
    ELSE IF f.line = st.line
    THEN OnRaise(st, r, f)
    ELSE LET d == DoOf(c, st.line, r.env)
             handles == {i \in DOMAIN st.binds : IsHandle(d.vals[i])}
         IN  [env |-> Assign(r.env, st.binds, d.vals),
              raised |-> None,
              ran |-> Append(r.ran, st.line),
              out |-> r.out \o d.out,
              reloaded |-> r.reloaded \cup
                           {st.binds[i] : i \in {j \in handles : IsHandle(r.env[st.binds[j]])}},
              loaded |-> IF handles = {} THEN r.loaded ELSE r.loaded \cup {st.line}]

RECURSIVE RunFrom(_, _, _, _, _)
RunFrom(c, prog, i, r, f) ==
    IF i > Len(prog) \/ r.raised # None THEN r
    ELSE LET next == CHOOSE x \in {Step(c, prog[i], r, f)} : TRUE
         IN  RunFrom(c, prog, i + 1, next, f)

Run(c, prog, e, f) == RunFrom(c, prog, 1, Start(e), f)

\* cell c may be run in this session, with the environment's choice f
MayRun(c, f) ==
    /\ c \in SectionCells(section)
    /\ section = "linear" => (linear = c - 1 /\ raised = None)
    /\ f = None \/ failures < MaxFailures

\* the session after cell c has run with result r under the choice f
RunCell(c, f, r) ==
    /\ f = None \/ r.raised = f
    /\ section' = section
    /\ failures' = IF f = None THEN failures ELSE failures + 1
    /\ env' = r.env
    /\ last' = c
    /\ raised' = r.raised
    /\ ran' = r.ran
    /\ out' = r.out
    /\ reloaded' = r.reloaded
    /\ loadedAt' = loadedAt \cup r.loaded
    /\ done' = IF c \in LoaderCells /\ r.raised = None THEN done \cup {c} ELSE done
    /\ linear' = IF linear = c - 1 /\ raised = None THEN c ELSE -1

InstallCell ==
    \E f \in Failures(InstallProg) :
        /\ MayRun(1, f)
        /\ RunCell(1, f, Run(1, InstallProg, env, f))

ImportCell ==
    \E f \in Failures(ImportProg) :
        /\ MayRun(2, f)
        /\ RunCell(2, f, Run(2, ImportProg, env, f))

TokenizingCell ==
    \E f \in Failures(TokenizingProg) :
        /\ MayRun(3, f)
        /\ RunCell(3, f, Run(3, TokenizingProg, env, f))

FillMaskCell ==
    \E f \in Failures(FillMaskProg) :
        /\ MayRun(4, f)
        /\ RunCell(4, f, Run(4, FillMaskProg, env, f))

BiasCell ==
    \E f \in Failures(BiasProg) :
        /\ MayRun(5, f)
        /\ RunCell(5, f, Run(5, BiasProg, env, f))

NeuronViewCell ==
    \E f \in Failures(NeuronViewProg) :
        /\ MayRun(6, f)
        /\ RunCell(6, f, Run(6, NeuronViewProg, env, f))

ModelViewCell ==
    \E f \in Failures(ModelViewProg) :
        /\ MayRun(7, f)
        /\ RunCell(7, f, Run(7, ModelViewProg, env, f))

TwoSentenceCell ==
    \E f \in Failures(TwoSentenceProg) :
        /\ MayRun(8, f)
        /\ RunCell(8, f, Run(8, TwoSentenceProg, env, f))

T5GenerateCell ==
    \E f \in Failures(T5GenerateProg) :
        /\ MayRun(9, f)
        /\ RunCell(9, f, Run(9, T5GenerateProg, env, f))

SummarizeCell ==
    \E f \in Failures(SummarizeProg) :
        /\ MayRun(10, f)
        /\ RunCell(10, f, Run(10, SummarizeProg, env, f))

T5AttentionCell ==
    \E f \in Failures(T5AttentionProg) :
        /\ MayRun(11, f)
        /\ RunCell(11, f, Run(11, T5AttentionProg, env, f))

Init ==
    /\ section \in Sections
    /\ env = [n \in Names |-> Unbound]
    /\ last = 0
    /\ raised = None
    /\ ran = <<>>
    /\ out = <<>>
    /\ reloaded = {}
    /\ loadedAt = {}
    /\ done = {}
    /\ failures = 0
    /\ linear = 0

Next ==
    \/ InstallCell
    \/ ImportCell
    \/ TokenizingCell
    \/ FillMaskCell
    \/ BiasCell
    \/ NeuronViewCell
    \/ ModelViewCell
    \/ TwoSentenceCell
    \/ T5GenerateCell
    \/ SummarizeCell
    \/ T5AttentionCell

Spec == Init /\ [][Next]_vars

----------------------------------------------------------------------------
(* Properties.                                                             *)

TypeOK == DOMAIN env = Names /\ section \in Sections

ExternalError(err) == err.kind \notin {"none", "NameError"}
Completed(c) == last = c /\ raised = None

\* C4: loading is idempotent.  When a cell executes a from_pretrained or
\* pipeline call for a name that already holds a handle, the name holds a
\* handle afterwards and it is the same handle (class, checkpoint, options)
\* as before, so each later cell finds what it would have found after a
\* single load; a load that raises leaves the handle of the first load.
C4_LoadIdempotent ==
    [][\A h \in HandleNames :
          (h \in reloaded' \/ (IsHandle(env[h]) /\ raised'.line \in LoadLinesOf[h]))
              => (IsHandle(env[h]) /\ env'[h] = env[h])]_vars

\* the attention cell has loaded tokenizer again after the tokenizing cell had
C4_Witness ==
    /\ Completed(7)
    /\ "tokenizer" \in reloaded
    /\ {68, 171} \subseteq loadedAt

\* C5: an error raised by an external call ends the cell with that error.
\* The error the session shows is the one the call raised, at the line of the
\* call; the lines executed are exactly the lines before it, each once (no
\* retry, nothing after the call); and no name other than those the earlier
\* lines assign has changed (no fallback value).
C5_FailurePropagates ==
    [][ExternalError(raised') =>
          \E i \in DOMAIN ProgOf(last') :
              LET prog == ProgOf(last') IN
              /\ prog[i].line = raised'.line
              /\ raised'.kind \in prog[i].raises
              /\ failures' = failures + 1
              /\ ran' = [k \in 1..(i - 1) |-> prog[k].line]
              /\ \A n \in Names \ BindsBefore(prog, i) : env'[n] = env[n]
              /\ \A n \in BindsAt(prog, i) : env'[n] = env[n]]_vars

\* the fill-mask call has raised after the pipeline was loaded
C5_Witness ==
    /\ last = 4
    /\ raised = Raise("PipelineException", 99)
    /\ ran = <<96, 98>>
    /\ IsHandle(env["unmasker"])

\* C6, as claimed: in a top-to-bottom run no cell reads an unbound name, and
\* in any order a cell that uses a handle completes only if a cell that
\* loads that handle has completed before.
C6_Original ==
    /\ linear >= 1 => raised.kind # "NameError"
    /\ \A c \in 1..NCells :
          Completed(c) => \A h \in UsesOf[c] : LoadersOf[h] \cap done # {}

\* C6, amended: in a top-to-bottom run no cell reads an unbound name, and in
\* any order a cell that uses a handle completes only if a statement that
\* loads that handle has executed successfully before (the cell holding that
\* statement may have raised later on).
C6_LinearDependencies ==
    /\ linear >= 1 => raised.kind # "NameError"
    /\ \A c \in 1..NCells :
          Completed(c) => \A h \in UsesOf[c] : LoadLinesOf[h] \cap loadedAt # {}

\* the bias cell has completed although the fill-mask cell never has
C6_Witness ==
    /\ Completed(5)
    /\ 4 \notin done
    /\ 96 \in loadedAt

\* C8: a name that holds a handle holds a handle after every cell, whichever
\* cell runs and however it ends.
C8_HandlesHeld ==
    [][\A h \in HandleNames : IsHandle(env[h]) => IsHandle(env'[h])]_vars

\* every handle is loaded and the last cell of the notebook has run
C8_Witness ==
    /\ Completed(NCells)
    /\ \A h \in HandleNames : IsHandle(env[h])

\* C9: what a cell passes to model_view belongs together.  The tokens are the
\* conversion of the ids the attention was computed from, and these are the
\* ids the cell itself has encoded from its own sentences (not a value of
\* inputs, outputs, attention or tokens that another cell left), so there are
\* as many tokens as the attention has positions.
ViewConsistent(att, toks, ids) ==
    /\ att.t = "attention" /\ toks.t = "tokens"
    /\ att.q = ids /\ att.k = ids
    /\ toks.toks = convert_ids_to_tokens(ids)
    /\ Len(toks.toks) = Len(att.q)

\* the ids the cell executed last encodes for its view
OwnIds ==
    CASE last = 7 -> encode(<<sentence_a_lit>>)
      [] last = 8 -> encode(<<sentence_a_lit, sentence_b_lit>>)
      [] OTHER -> <<>>

C9_ViewConsistent ==
    \A i \in DOMAIN out :
        /\ out[i].t = "model_view" =>
              /\ last \in {7, 8}
              /\ env["inputs"].rows[1] = OwnIds
              /\ ViewConsistent(out[i].attention, out[i].tokens, OwnIds)
        /\ out[i].t = "model_view_encdec" =>
              /\ last = 11
              /\ ViewConsistent(out[i].encoder_attention, out[i].encoder_tokens,
                                t5_encode(translate_lit))
              /\ ViewConsistent(out[i].decoder_attention, out[i].decoder_tokens,
                                t5_encode(target_lit))
              /\ out[i].cross_attention.q = t5_encode(target_lit)
              /\ out[i].cross_attention.k = t5_encode(translate_lit)

\* the two-sentence cell has rendered its view after the T5 attention cell
\* had left its own outputs behind
C9_Witness ==
    /\ Completed(8)
    /\ \E i \in DOMAIN out : out[i].t = "model_view"
    /\ env["encoder_text"] # Unbound
    /\ env["decoder_text"] # Unbound

\* a top-to-bottom run of the whole notebook has completed
LinearRunCompleted == linear = NCells /\ raised = None

====
